---- MODULE Spec2Model ----
(***************************************************************************)
(* Model of src/tracker_store.py: the TrackerStore contract, the           *)
(* InMemoryTrackerStore, the SQLTrackerStore (events table, session        *)
(* windowing, incremental save) and the FailSafeTrackerStore decorator,    *)
(* together with one caller that builds, retrieves, extends and saves      *)
(* trackers, and an event broker that records what is published.           *)
(***************************************************************************)
EXTENDS Integers, Sequences, FiniteSets, TLC

\* ------------------------------------------------------------------ bounds
\* Events the caller may create in one behaviour (event creation stamps).
MaxEvents == 3
\* Rows the events table may hold.
MaxRows == 5
\* Payloads the broker may receive.
MaxPublished == 5
\* Events the caller of the FailSafeTrackerStore appends with tracker.update.
MaxFailSafeEvents == 2

\* ---------------------------------------------------------------- constants
Ids == {"u1", "u2"}
Null == "null"
ACTION_LISTEN_NAME == "action_listen"
SessionStartedTypeName == "session_started"
\* domain=None, and the Domain objects a store may be given.
NoDomain == "None"
Domains == {"domain1", "domain2"}

VARIABLES
    backend,        \* which store the deployment built: "memory", "sql", "failsafe"
    domain,         \* TrackerStore.domain is set (truthy)
    domain_object,  \* which Domain object the (primary) store's domain is
    retrieve_events_from_previous_conversation_sessions, \* deprecated flag, truthy or not
    event_broker,   \* TrackerStore.event_broker is set
    store,          \* InMemoryTrackerStore.store: conversation id -> serialised tracker
    rows,           \* the SQL events table, in insertion (row id) order
    database,       \* the database server: [reachable, schema]
    construction,   \* SQLTrackerStore.__init__: where it is, what it was given
    writers,        \* concurrent save() calls on one store: [pc, count, tracker]
    scope,          \* one `with self.session_scope()` block, step by step
    fallback,       \* FailSafeTrackerStore._fallback_tracker_store: [exists, store, domain]
    published,      \* payloads handed to EventBroker.publish, in call order
    tracker,        \* the tracker the caller holds (or None)
    evClock,        \* number of events created so far (events' own timestamps)
    saved,          \* conversation ids save() was ever called for
    op              \* the last store operation and what it did

vars == <<backend, domain, domain_object,
          retrieve_events_from_previous_conversation_sessions,
          event_broker, store, rows, database, construction, writers, scope,
          fallback, published, tracker, evClock, saved, op>>

\* What the store's operations leave as it is.
config == <<backend, domain, domain_object,
            retrieve_events_from_previous_conversation_sessions, event_broker,
            database, construction, writers, scope>>

\* ------------------------------------------------------------------- events
\* Event objects of rasa.shared.core.events, by the fields this file reads.
ActionExecuted(name, t) ==
    [kind |-> "ActionExecuted", action_name |-> name, intent |-> Null, timestamp |-> t]

UserUttered(intent, t) ==
    [kind |-> "UserUttered", action_name |-> Null, intent |-> intent, timestamp |-> t]

SessionStarted(t) ==
    [kind |-> "SessionStarted", action_name |-> Null, intent |-> Null, timestamp |-> t]

\* The events the caller appends: an action, a user message with an intent, a
\* session start; t is the event's own timestamp.
NewEvent(k, t) ==
    CASE k = "greet" -> ActionExecuted("greet", t)
      [] k = "hello" -> UserUttered("hello", t)
      [] k = "session_started" -> SessionStarted(t)

\* event.type_name
type_name(e) ==
    CASE e.kind = "ActionExecuted" -> "action"
      [] e.kind = "UserUttered" -> "user"
      [] e.kind = "SessionStarted" -> SessionStartedTypeName

\* event.as_dict(): "event", "timestamp", "name" (actions) and
\* parse_data.intent.name (user messages); a missing key reads as Null.
as_dict(e) ==
    [event |-> type_name(e), timestamp |-> e.timestamp,
     name |-> e.action_name, parse_data_intent_name |-> e.intent]

\* json.dumps(data): the textual form, here the tuple of the dict's values.
json_dumps(d) == <<d.event, d.timestamp, d.name, d.parse_data_intent_name>>

\* json.loads(text)
json_loads(s) ==
    [event |-> s[1], timestamp |-> s[2], name |-> s[3], parse_data_intent_name |-> s[4]]

\* Event.from_parameters(dict), as DialogueStateTracker.from_dict and
\* Dialogue.from_parameters rebuild events.
event_from_dict(d) ==
    [kind |-> CASE d.event = "action" -> "ActionExecuted"
                [] d.event = "user" -> "UserUttered"
                [] d.event = SessionStartedTypeName -> "SessionStarted",
     action_name |-> d.name, intent |-> d.parse_data_intent_name,
     timestamp |-> d.timestamp]

\* ----------------------------------------------------------------- trackers
None == [is_none |-> TRUE, sender_id |-> "", events |-> <<>>]

Tracker(sender_id, events) ==
    [is_none |-> FALSE, sender_id |-> sender_id, events |-> events]

\* TrackerStore.init_tracker: an empty DialogueStateTracker for sender_id.
init_tracker(sender_id) == Tracker(sender_id, <<>>)

\* itertools.islice(events, offset, len(events))
islice(events, offset) == SubSeq(events, offset + 1, Len(events))

\* TrackerStore.serialise_tracker: json.dumps(tracker.as_dialogue().as_dict())
serialise_tracker(t) ==
    [name |-> t.sender_id,
     events |-> [i \in 1..Len(t.events) |-> json_dumps(as_dict(t.events[i]))]]

\* TrackerStore.deserialise_tracker: init_tracker + recreate_from_dialogue
deserialise_tracker(sender_id, serialised) ==
    Tracker(sender_id,
            [i \in 1..Len(serialised.events) |->
                event_from_dict(json_loads(serialised.events[i]))])

\* TrackerStore.number_of_existing_events, given what self.retrieve returned.
number_of_existing_events(old_tracker) ==
    IF old_tracker.is_none THEN 0 ELSE Len(old_tracker.events)

\* The body published for one event: {"sender_id": ...} updated with as_dict().
Body(sender_id, e) == [sender_id |-> sender_id, data |-> as_dict(e)]

\* TrackerStore.stream_events: the payloads published, given the offset.
stream_events(t, offset) ==
    LET new == islice(t.events, offset)
    IN [i \in 1..Len(new) |-> Body(t.sender_id, new[i])]

\* ------------------------------------------------------- InMemoryTrackerStore
\* `sender_id in self.store`
InStore(st, sender_id) == sender_id \in DOMAIN st

\* InMemoryTrackerStore.retrieve
InMemory_retrieve(st, sender_id) ==
    IF InStore(st, sender_id)
    THEN deserialise_tracker(sender_id, st[sender_id])
    ELSE None

\* InMemoryTrackerStore.save: stream the events beyond those retrieve() shows
\* (when a broker is set), then overwrite the entry with the whole tracker.
InMemory_save(st, pub, broker, t) ==
    LET offset == number_of_existing_events(InMemory_retrieve(st, t.sender_id))
        out == IF broker THEN stream_events(t, offset) ELSE <<>>
    IN [store |-> [k \in DOMAIN st \cup {t.sender_id} |->
                      IF k = t.sender_id THEN serialise_tracker(t) ELSE st[k]],
        published |-> pub \o out,
        streamed |-> Len(out)]

\* InMemoryTrackerStore.keys
InMemory_keys(st) == DOMAIN st

\* ------------------------------------------------------------ SQLTrackerStore
\* A NULL timestamp (max() over no rows).
NullTime == -1

SetMax(S) == CHOOSE x \in S : \A y \in S : y <= x

\* SQLEvent(...): one row of the events table; its id is its position in rows.
SQLEvent(sender_id, e, timestamp) ==
    LET data == as_dict(e)
    IN [sender_id |-> sender_id,
        type_name |-> type_name(e),
        timestamp |-> timestamp,
        intent_name |-> data.parse_data_intent_name,
        action_name |-> data.name,
        data |-> json_dumps(data)]

\* session_start_sub_query: max(timestamp) over the sender's session_started rows.
session_start(rws, sender_id) ==
    LET S == {rws[i].timestamp : i \in {j \in 1..Len(rws) :
                  /\ rws[j].sender_id = sender_id
                  /\ rws[j].type_name = SessionStartedTypeName}}
    IN IF S = {} THEN NullTime ELSE SetMax(S)

\* _event_query with `>` for `>=`: the session-started row itself is cut off.
event_query_ids_after(rws, sender_id, fetch_events_from_all_sessions) ==
    LET start == session_start(rws, sender_id)
    IN {i \in 1..Len(rws) :
          /\ rws[i].sender_id = sender_id
          /\ \/ fetch_events_from_all_sessions
             \/ start = NullTime
             \/ rws[i].timestamp > start}

\* _event_query without the filter on sender_id.
event_query_ids_any_sender(rws, sender_id, fetch_events_from_all_sessions) ==
    LET start == session_start(rws, sender_id)
    IN {i \in 1..Len(rws) :
          \/ fetch_events_from_all_sessions
          \/ start = NullTime
          \/ rws[i].timestamp >= start}

\* The row ids _event_query selects (its filters, before order_by).
event_query_ids(rws, sender_id, fetch_events_from_all_sessions) ==
    LET start == session_start(rws, sender_id)
    IN {i \in 1..Len(rws) :
          /\ rws[i].sender_id = sender_id
          /\ \/ fetch_events_from_all_sessions
             \/ start = NullTime
             \/ rws[i].timestamp >= start}

\* order_by(timestamp): every order of the selected rows that is sorted by
\* timestamp; the database may return rows of equal timestamp in any order.
RECURSIVE order_by_timestamp(_, _)
order_by_timestamp(rws, S) ==
    IF S = {} THEN {<<>>}
    ELSE UNION {{<<i>> \o rest : rest \in order_by_timestamp(rws, S \ {i})} :
                  i \in {j \in S : \A k \in S : rws[j].timestamp <= rws[k].timestamp}}

\* _event_query(...).all(): the possible result lists, as row ids.
event_query(rws, sender_id, fetch_events_from_all_sessions) ==
    order_by_timestamp(rws,
        event_query_ids(rws, sender_id, fetch_events_from_all_sessions))

\* A count that finds nothing persisted.
event_query_count_none(rws, sender_id, fetch_events_from_all_sessions) == 0

\* _event_query(...).count()
event_query_count(rws, sender_id, fetch_events_from_all_sessions) ==
    Cardinality(event_query_ids(rws, sender_id, fetch_events_from_all_sessions))

\* SQLTrackerStore._retrieve: the trackers it may return.
SQL__retrieve(rws, dom, sender_id, fetch_events_from_all_sessions) ==
    {LET events == [i \in 1..Len(q) |-> event_from_dict(json_loads(rws[q[i]].data))]
     IN IF dom /\ Len(events) > 0 THEN Tracker(sender_id, events) ELSE None :
        q \in event_query(rws, sender_id, fetch_events_from_all_sessions)}

\* SQLTrackerStore.retrieve_full_tracker
SQL_retrieve_full_tracker(rws, dom, sender_id) ==
    SQL__retrieve(rws, dom, sender_id, TRUE)

\* SQLTrackerStore.retrieve
SQL_retrieve(rws, dom, flag, sender_id) ==
    IF flag
    THEN SQL_retrieve_full_tracker(rws, dom, sender_id)
    ELSE SQL__retrieve(rws, dom, sender_id, FALSE)

\* SQLTrackerStore._additional_events
additional_events(rws, flag, t) ==
    islice(t.events, event_query_count(rws, t.sender_id, flag))

\* The timestamp of the newest row (0 before the first).
LastStamp(rws) ==
    IF rws = <<>> THEN 0 ELSE SetMax({rws[i].timestamp : i \in 1..Len(rws)})

\* datetime.now(timezone.utc) read once per inserted row: the clock has either
\* advanced since the last read or still shows the same value.
RECURSIVE Stamps(_, _)
Stamps(k, last) ==
    IF k = 0 THEN {<<>>}
    ELSE UNION {{<<now>> \o rest : rest \in Stamps(k - 1, now)} :
                  now \in (IF last = 0 THEN {1} ELSE {last, last + 1})}

\* SQLTrackerStore.save: stream_events (when a broker is set), then insert one
\* row per additional event and commit.
SQL_save(rws, pub, dom, flag, broker, t) ==
    LET new == additional_events(rws, flag, t)
    IN {[rows |-> rws \o [i \in 1..Len(new) |->
                            SQLEvent(t.sender_id, new[i], stamps[i])],
         published |-> pub \o (IF broker
                               THEN stream_events(t, number_of_existing_events(old))
                               ELSE <<>>),
         inserted |-> Len(new),
         streamed |-> IF broker
                      THEN Len(stream_events(t, number_of_existing_events(old)))
                      ELSE 0] :
          old \in SQL_retrieve(rws, dom, flag, t.sender_id),
          stamps \in Stamps(Len(new), LastStamp(rws))}

\* SQLTrackerStore.keys
SQL_keys(rws) == {rws[i].sender_id : i \in 1..Len(rws)}

\* The database: it can be reached or not; the schema that POSTGRESQL_SCHEMA
\* names is "unset" (no name configured, or not a PostgreSQL URL), "missing"
\* or "present".
Schemas == {"unset", "missing", "present"}

\* A database that answers and no schema name in the environment.
Available == [reachable |-> TRUE, schema |-> "unset"]

\* ensure_schema_exists: returns ("ok"), or raises ValueError when the schema
\* query answers that the schema is not there; the query itself needs the
\* database.
ensure_schema_exists(db) ==
    IF db.schema = "unset" THEN "ok"
    ELSE IF ~db.reachable THEN "OperationalError"
    ELSE IF db.schema = "missing" THEN "ValueError"
    ELSE "ok"

\* session_scope that lets the ValueError through.
session_scope_raises(db) ==
    LET checked == ensure_schema_exists(db)
    IN IF checked # "ok" THEN checked
       ELSE IF ~db.reachable THEN "OperationalError"
       ELSE "ok"

\* `with self.session_scope() as session:` around a body that queries the
\* database: the body runs ("ok"), or the ValueError of ensure_schema_exists
\* ends the process (print_error_and_exit), or the driver's error for a
\* database that cannot be reached leaves the block as it was raised.
session_scope(db) ==
    LET checked == ensure_schema_exists(db)
    IN IF checked = "ValueError" THEN "SystemExit"
       ELSE IF checked # "ok" THEN checked
       ELSE IF ~db.reachable THEN "OperationalError"
       ELSE "ok"

\* No session scope is being stepped through.
NoScope ==
    [pc |-> "idle", call |-> Null, open |-> 0, pending |-> Null,
     origin |-> Null, decodable |-> TRUE, calls |-> 0]

\* No save() runs concurrently with the caller's operations.
NoWriters == <<>>

\* A store whose constructor has returned, with its events table created.
Constructed ==
    [pc |-> "done", dialect |-> "sqlite", login_db |-> FALSE, table |-> TRUE,
     attempts |-> 1, error |-> Null]

\* session.close() that flushes what was added to the session.
session_close_flushes(rws, pending) == rws \o pending

\* session.close() of a session that was not committed: the rows added to it
\* are discarded.
session_close(rws, pending) == rws

\* -------------------------------------------------------- FailSafeTrackerStore
\* The errors the primary store's database calls may raise.
PrimaryErrors == {"OperationalError"}

\* What one store call did: the stores and the broker afterwards, the rows it
\* inserted, the payloads it published, the error the primary store raised
\* (Null when none), the errors handed to on_tracker_store_error, and whether
\* the fallback store's save ran.
Outcome(st, rws, fb, pub, inserted, streamed, raised, callbacks, fb_saved) ==
    [store |-> st, rows |-> rws, fallback |-> fb, published |-> pub,
     inserted |-> inserted, streamed |-> streamed, raised |-> raised,
     callbacks |-> callbacks, fb_saved |-> fb_saved,
     propagated |-> IF raised # Null /\ callbacks = <<>> THEN <<raised>> ELSE <<>>]

\* FailSafeTrackerStore.fallback_tracker_store: the fallback, created on first
\* use as an empty InMemoryTrackerStore when none was supplied.
fallback_tracker_store(fb) ==
    IF ~fb.exists
    THEN [exists |-> TRUE, lazy |-> TRUE, store |-> <<>>, domain |-> domain_object]
    ELSE fb

\* The domain setter that forgets the fallback store.
domain_setter_primary_only(fb, new_domain) ==
    [primary |-> new_domain, fallback |-> fb]

\* FailSafeTrackerStore.domain (setter): the primary store's domain and, when
\* there is a fallback store, the fallback's.
domain_setter(fb, new_domain) ==
    [primary |-> new_domain,
     fallback |-> IF fb.exists THEN [fb EXCEPT !.domain = new_domain] ELSE fb]

\* FailSafeTrackerStore.domain (getter)
domain_getter == domain_object

\* FailSafeTrackerStore.__init__(tracker_store, fallback_tracker_store=fb):
\* TrackerStore.__init__ assigns self.domain = tracker_store.domain, which
\* runs the setter.
FailSafe_init(tracker_store_domain, fb) ==
    domain_setter(fb, tracker_store_domain)

\* The primary SQLTrackerStore.save raising: before stream_events is through,
\* or later, in the session, with any number of the new rows added to it and
\* the commit not completed.
SQL_save_raises(rws, pub, dom, flag, broker, t) ==
    {[rows |-> rws, published |-> pub]}
    \cup {[rows |-> session_close(rws, SubSeq(o.rows, Len(rws) + 1, Len(rws) + k)),
            published |-> o.published] :
            o \in SQL_save(rws, pub, dom, flag, broker, t),
            k \in 0..Len(additional_events(rws, flag, t))}

\* FailSafeTrackerStore.retrieve that turns to the fallback store when the
\* primary store raises.
FailSafe_retrieve_from_fallback(rws, dom, flag, sender_id) ==
    {[tracker |-> r, raised |-> Null, callbacks |-> <<>>, propagated |-> <<>>] :
        r \in SQL_retrieve(rws, dom, flag, sender_id)}
    \cup {[tracker |-> IF fallback.exists
                       THEN InMemory_retrieve(fallback.store, sender_id)
                       ELSE None,
           raised |-> e, callbacks |-> <<e>>, propagated |-> <<>>] :
            e \in PrimaryErrors}

\* FailSafeTrackerStore.retrieve that calls the callback and raises again.
FailSafe_retrieve_reraises(rws, dom, flag, sender_id) ==
    {[tracker |-> r, raised |-> Null, callbacks |-> <<>>, propagated |-> <<>>] :
        r \in SQL_retrieve(rws, dom, flag, sender_id)}
    \cup {[tracker |-> None, raised |-> e, callbacks |-> <<e>>,
           propagated |-> <<e>>] : e \in PrimaryErrors}

\* FailSafeTrackerStore.retrieve: what it returns, the error the primary store
\* raised, the errors handed to on_tracker_store_error and those that reach
\* the caller.
FailSafe_retrieve(rws, dom, flag, sender_id) ==
    {[tracker |-> r, raised |-> Null, callbacks |-> <<>>, propagated |-> <<>>] :
        r \in SQL_retrieve(rws, dom, flag, sender_id)}
    \cup {[tracker |-> None, raised |-> e, callbacks |-> <<e>>,
           propagated |-> <<>>] : e \in PrimaryErrors}

\* FailSafeTrackerStore.keys
FailSafe_keys(rws) ==
    {[keys |-> SQL_keys(rws), raised |-> Null, callbacks |-> <<>>,
      propagated |-> <<>>]}
    \cup {[keys |-> {}, raised |-> e, callbacks |-> <<e>>, propagated |-> <<>>] :
            e \in PrimaryErrors}

\* FailSafeTrackerStore.save that reports the error and stops there.
FailSafe_save_no_fallback(rws, fb, pub, dom, flag, broker, t) ==
    {Outcome(<<>>, o.rows, fb, o.published, o.inserted, o.streamed, Null, <<>>,
             FALSE) :
        o \in SQL_save(rws, pub, dom, flag, broker, t)}
    \cup
    {Outcome(<<>>, p.rows, fb, p.published, 0, Len(p.published) - Len(pub),
             e, <<e>>, FALSE) :
        p \in SQL_save_raises(rws, pub, dom, flag, broker, t), e \in PrimaryErrors}

\* FailSafeTrackerStore.save
FailSafe_save(rws, fb, pub, dom, flag, broker, t) ==
    {Outcome(<<>>, o.rows, fb, o.published, o.inserted, o.streamed, Null, <<>>,
             FALSE) :
        o \in SQL_save(rws, pub, dom, flag, broker, t)}
    \cup
    {LET f == fallback_tracker_store(fb)
         m == InMemory_save(f.store, p.published, broker, t)
     IN Outcome(<<>>, p.rows, [f EXCEPT !.store = m.store], m.published,
                0, Len(m.published) - Len(pub), e, <<e>>, TRUE) :
        p \in SQL_save_raises(rws, pub, dom, flag, broker, t), e \in PrimaryErrors}

\* ------------------------------------------------------- the configured store
\* A store call that raised e to its caller: no result.
Raised(e) ==
    [tracker |-> None, keys |-> {}, raised |-> e, callbacks |-> <<>>,
     propagated |-> <<e>>]

\* `except Exception` of the decorator: SystemExit is not an Exception.
IsException(e) == e # "SystemExit"

\* self.retrieve(sender_id) of the configured store: what it returns, or the
\* error it raises. The SQL store's session comes first; the decorator
\* catches what is an Exception.
retrieve(sender_id) ==
    LET session == session_scope(database)
    IN CASE backend = "memory" ->
              {[tracker |-> InMemory_retrieve(store, sender_id), raised |-> Null,
                callbacks |-> <<>>, propagated |-> <<>>]}
         [] backend = "sql" ->
              IF session # "ok" THEN {Raised(session)}
              ELSE {[tracker |-> r, raised |-> Null, callbacks |-> <<>>,
                     propagated |-> <<>>] :
                      r \in SQL_retrieve(rows, domain,
                               retrieve_events_from_previous_conversation_sessions,
                               sender_id)}
         [] backend = "failsafe" ->
              IF session # "ok" /\ ~IsException(session) THEN {Raised(session)}
              ELSE {r \in FailSafe_retrieve(rows, domain,
                             retrieve_events_from_previous_conversation_sessions,
                             sender_id) :
                      session # "ok" => r.raised = session}

\* self.retrieve_full_tracker(conversation_id): overridden by SQLTrackerStore
\* only; the other classes inherit TrackerStore's, which calls self.retrieve.
retrieve_full_tracker(conversation_id) ==
    IF backend = "sql"
    THEN (IF session_scope(database) # "ok"
          THEN {Raised(session_scope(database))}
          ELSE {[tracker |-> r, raised |-> Null, callbacks |-> <<>>,
                 propagated |-> <<>>] :
                  r \in SQL_retrieve_full_tracker(rows, domain, conversation_id)})
    ELSE retrieve(conversation_id)

\* self.save(tracker) of the configured store.
save(t) ==
    LET session == session_scope(database)
        raised == Outcome(store, rows, fallback, published, 0, 0, session, <<>>,
                          FALSE)
    IN CASE backend = "memory" ->
              {LET m == InMemory_save(store, published, event_broker, t)
               IN Outcome(m.store, rows, fallback, m.published, 0, m.streamed,
                          Null, <<>>, FALSE)}
         [] backend = "sql" ->
              IF session # "ok" THEN {raised}
              ELSE {Outcome(store, o.rows, fallback, o.published, o.inserted,
                            o.streamed, Null, <<>>, FALSE) :
                      o \in SQL_save(rows, published, domain,
                               retrieve_events_from_previous_conversation_sessions,
                               event_broker, t)}
         [] backend = "failsafe" ->
              IF session # "ok" /\ ~IsException(session) THEN {raised}
              ELSE {o \in FailSafe_save(rows, fallback, published, domain,
                             retrieve_events_from_previous_conversation_sessions,
                             event_broker, t) :
                      session # "ok" => o.raised = session}

\* self.keys() of the configured store.
keys ==
    LET session == session_scope(database)
    IN CASE backend = "memory" ->
              {[keys |-> InMemory_keys(store), raised |-> Null, callbacks |-> <<>>,
                propagated |-> <<>>]}
         [] backend = "sql" ->
              IF session # "ok" THEN {Raised(session)}
              ELSE {[keys |-> SQL_keys(rows), raised |-> Null, callbacks |-> <<>>,
                     propagated |-> <<>>]}
         [] backend = "failsafe" ->
              IF session # "ok" /\ ~IsException(session) THEN {Raised(session)}
              ELSE {r \in FailSafe_keys(rows) : session # "ok" => r.raised = session}

\* create_tracker that appends action_listen whatever it is told.
create_tracker_always_listens(sender_id, append_action_listen) ==
    Tracker(sender_id, <<ActionExecuted(ACTION_LISTEN_NAME, evClock + 1)>>)

\* TrackerStore.create_tracker, up to its save: the new tracker.
create_tracker(sender_id, append_action_listen) ==
    IF append_action_listen
    THEN Tracker(sender_id, <<ActionExecuted(ACTION_LISTEN_NAME, evClock + 1)>>)
    ELSE init_tracker(sender_id)

\* The store holds a log for the conversation id: an entry of the in-memory
\* dict, a row of the events table (keys() lists the id).
HoldsLogIn(st, rws, fb, sender_id) ==
    CASE backend = "memory" -> sender_id \in InMemory_keys(st)
      [] backend = "sql" -> sender_id \in SQL_keys(rws)
      [] backend = "failsafe" ->
           \/ sender_id \in SQL_keys(rws)
           \/ fb.exists /\ sender_id \in InMemory_keys(fb.store)

HoldsLog(sender_id) == HoldsLogIn(store, rows, fallback, sender_id)

\* ------------------------------------------------------------------- actions
\* The record of the last store operation: its name and conversation id, the
\* length of the tracker it returned or saved (base), whether the store held a
\* log for the id before it (held), for saves what was written, and for a
\* tracker that get_or_create_tracker created the append_action_listen it got.
NoOp ==
    [name |-> "init", sender_id |-> "", base |-> 0, held |-> FALSE,
     inserted |-> 0, streamed |-> 0, created |-> FALSE, saves |-> 0,
     append |-> FALSE, raised |-> <<>>, callbacks |-> <<>>, fb_saved |-> FALSE,
     propagated |-> <<>>, keys |-> {}]

\* The process was ended by print_error_and_exit: it runs nothing more.
Exited == "SystemExit" \in {op.propagated[i] : i \in 1..Len(op.propagated)}

Within(o) ==
    /\ Len(o.rows) <= MaxRows
    /\ Len(o.published) <= MaxPublished

Apply(o) ==
    /\ store' = o.store
    /\ rows' = o.rows
    /\ fallback' = o.fallback
    /\ published' = o.published

\* fallback_tracker_store=None, and an InMemoryTrackerStore handed to the
\* decorator's constructor.
NoFallback == [exists |-> FALSE, lazy |-> FALSE, store |-> <<>>, domain |-> NoDomain]

SuppliedFallback(its_domain) ==
    [exists |-> TRUE, lazy |-> FALSE, store |-> <<>>, domain |-> its_domain]

InitWith(kinds, domains, flags) ==
    /\ backend \in kinds
    /\ domain \in (IF backend = "memory" THEN {TRUE} ELSE domains)
    /\ retrieve_events_from_previous_conversation_sessions \in
           (IF backend = "memory" THEN {FALSE} ELSE flags)
    /\ event_broker \in BOOLEAN
    /\ store = <<>>
    /\ rows = <<>>
    /\ database = Available
    /\ construction = Constructed
    /\ writers = NoWriters
    /\ scope = NoScope
    /\ domain_object = (IF domain THEN "domain1" ELSE NoDomain)
    /\ fallback \in (IF backend = "failsafe"
                     THEN {FailSafe_init(domain_object, fb).fallback :
                             fb \in {NoFallback, SuppliedFallback(domain_object)}}
                     ELSE {NoFallback})
    /\ published = <<>>
    /\ tracker = None
    /\ evClock = 0
    /\ saved = {}
    /\ op = NoOp

\* An InMemoryTrackerStore or a SQLTrackerStore, built by
\* _create_from_endpoint_config (which always passes a domain) or constructed
\* directly (domain and event_broker are Optional, the deprecated flag a kwarg).
Init == InitWith({"memory", "sql"}, BOOLEAN, BOOLEAN)

\* A FailSafeTrackerStore around a SQLTrackerStore that has a domain and
\* leaves the deprecated flag unset; the fallback store is supplied or not.
InitFailSafe == InitWith({"failsafe"}, {TRUE}, {FALSE})

\* The caller builds an empty tracker for a conversation id.
InitTracker(sender_id) ==
    /\ ~Exited
    /\ tracker' = init_tracker(sender_id)
    /\ op' = [NoOp EXCEPT !.name = "init_tracker", !.sender_id = sender_id]
    /\ UNCHANGED <<config, store, rows, fallback, published, evClock, saved>>

\* tracker.update(event): the caller appends a newly created event.
Update(k) ==
    /\ ~Exited
    /\ ~tracker.is_none
    /\ evClock < MaxEvents
    /\ tracker' = [tracker EXCEPT !.events = Append(@, NewEvent(k, evClock + 1))]
    /\ evClock' = evClock + 1
    /\ UNCHANGED <<config, store, rows, fallback, published, saved, op>>

\* tracker = store.retrieve(sender_id); a call that raises assigns nothing.
Retrieve(sender_id) ==
    /\ ~Exited
    /\ \E r \in retrieve(sender_id) :
          /\ tracker' = (IF r.propagated = <<>> THEN r.tracker ELSE tracker)
          /\ op' = [NoOp EXCEPT !.name = "retrieve", !.sender_id = sender_id,
                                !.base = Len(tracker'.events),
                                !.held = HoldsLog(sender_id),
                                !.raised = IF r.raised = Null THEN <<>> ELSE <<r.raised>>,
                                !.callbacks = r.callbacks,
                                !.propagated = r.propagated]
    /\ UNCHANGED <<config, store, rows, fallback, published, evClock, saved>>

\* tracker = store.retrieve_full_tracker(conversation_id)
RetrieveFullTracker(conversation_id) ==
    /\ ~Exited
    /\ \E r \in retrieve_full_tracker(conversation_id) :
          /\ tracker' = (IF r.propagated = <<>> THEN r.tracker ELSE tracker)
          /\ op' = [NoOp EXCEPT !.name = "retrieve_full_tracker",
                                !.sender_id = conversation_id,
                                !.base = Len(tracker'.events),
                                !.held = HoldsLog(conversation_id),
                                !.raised = IF r.raised = Null THEN <<>> ELSE <<r.raised>>,
                                !.callbacks = r.callbacks,
                                !.propagated = r.propagated]
    /\ UNCHANGED <<config, store, rows, fallback, published, evClock, saved>>

\* store.keys(): the caller keeps its tracker.
Keys ==
    /\ ~Exited
    /\ \E r \in keys :
          op' = [NoOp EXCEPT !.name = "keys",
                             !.base = Len(tracker.events),
                             !.raised = IF r.raised = Null THEN <<>> ELSE <<r.raised>>,
                             !.callbacks = r.callbacks,
                             !.propagated = r.propagated,
                             !.keys = r.keys]
    /\ UNCHANGED <<config, store, rows, fallback, published, tracker, evClock, saved>>

\* store.save(tracker)
Save ==
    /\ ~Exited
    /\ ~tracker.is_none
    /\ \E o \in save(tracker) :
          /\ Within(o)
          /\ Apply(o)
          /\ op' = [NoOp EXCEPT !.name = "save", !.sender_id = tracker.sender_id,
                                !.base = Len(tracker.events),
                                !.held = HoldsLog(tracker.sender_id),
                                !.inserted = o.inserted, !.streamed = o.streamed,
                                !.saves = 1,
                                !.raised = IF o.raised = Null THEN <<>> ELSE <<o.raised>>,
                                !.callbacks = o.callbacks,
                                !.fb_saved = o.fb_saved,
                                !.propagated = o.propagated]
    /\ saved' = saved \cup {tracker.sender_id}
    /\ UNCHANGED <<config, tracker, evClock>>

\* tracker = store.get_or_create_tracker(sender_id, append_action_listen=...)
GetOrCreateTracker(sender_id, append_action_listen) ==
    \E r \in retrieve(sender_id) :
       \/ /\ ~Exited
          /\ ~r.tracker.is_none \/ r.propagated # <<>>
          /\ tracker' = (IF r.propagated = <<>> THEN r.tracker ELSE tracker)
          /\ op' = [NoOp EXCEPT !.name = "get_or_create_tracker",
                                !.sender_id = sender_id,
                                !.base = Len(tracker'.events),
                                !.held = HoldsLog(sender_id),
                                !.raised = IF r.raised = Null THEN <<>> ELSE <<r.raised>>,
                                !.callbacks = r.callbacks,
                                !.propagated = r.propagated]
          /\ UNCHANGED <<config, store, rows, fallback, published, evClock, saved>>
       \/ /\ ~Exited
          /\ r.tracker.is_none /\ r.propagated = <<>>
          /\ append_action_listen => evClock < MaxEvents
          /\ LET t == create_tracker(sender_id, append_action_listen)
             IN /\ \E o \in save(t) :
                      /\ Within(o)
                      /\ Apply(o)
                      /\ op' = [NoOp EXCEPT !.name = "get_or_create_tracker",
                                   !.sender_id = sender_id,
                                   !.base = Len(t.events),
                                   !.held = HoldsLog(sender_id),
                                   !.inserted = o.inserted, !.streamed = o.streamed,
                                   !.created = TRUE, !.saves = 1,
                                   !.append = append_action_listen,
                                   !.raised =
                                       (IF r.raised = Null THEN <<>> ELSE <<r.raised>>)
                                       \o (IF o.raised = Null THEN <<>> ELSE <<o.raised>>),
                                   !.callbacks = r.callbacks \o o.callbacks,
                                   !.fb_saved = o.fb_saved,
                                   !.propagated = r.propagated \o o.propagated]
                /\ tracker' = t
                /\ evClock' = evClock + Len(t.events)
                /\ saved' = saved \cup {sender_id}
          /\ UNCHANGED config

NextOver(ids, kinds, updates) ==
    \/ \E sender_id \in ids : InitTracker(sender_id)
    \/ \E k \in kinds : evClock < updates /\ Update(k)
    \/ \E sender_id \in ids : Retrieve(sender_id)
    \/ \E conversation_id \in ids : RetrieveFullTracker(conversation_id)
    \/ Save
    \/ \E sender_id \in ids, append_action_listen \in BOOLEAN :
          GetOrCreateTracker(sender_id, append_action_listen)

\* The caller works on two conversation ids, with actions and session starts.
Next == NextOver(Ids, {"greet", "session_started"}, MaxEvents)

Spec == Init /\ [][Next]_vars

\* The decorator is exercised on one conversation id, with actions and
\* session starts, MaxFailSafeEvents of them appended by the caller; the
\* caller also lists the stored conversation ids.
NextFailSafe ==
    \/ NextOver({"u1"}, {"greet", "session_started"}, MaxFailSafeEvents)
    \/ Keys

SpecFailSafe == InitFailSafe /\ [][NextFailSafe]_vars

\* --------------------------------------------------- the decorator's domain
\* A FailSafeTrackerStore built around a primary store with any domain (or
\* none) and, possibly, a fallback store that has a domain of its own.
InitDomain ==
    /\ backend = "failsafe"
    /\ domain_object \in Domains \cup {NoDomain}
    /\ domain = (domain_object # NoDomain)
    /\ retrieve_events_from_previous_conversation_sessions = FALSE
    /\ event_broker = FALSE
    /\ store = <<>>
    /\ rows = <<>>
    /\ database = Available
    /\ construction = Constructed
    /\ writers = NoWriters
    /\ scope = NoScope
    /\ fallback \in {FailSafe_init(domain_object, fb).fallback :
                       fb \in {NoFallback} \cup
                              {SuppliedFallback(d) : d \in Domains \cup {NoDomain}}}
    /\ published = <<>>
    /\ tracker = None
    /\ evClock = 0
    /\ saved = {}
    /\ op = NoOp

\* store.domain = new_domain, on the decorator.
SetDomain(new_domain) ==
    /\ LET set == domain_setter(fallback, new_domain)
       IN /\ domain_object' = set.primary
          /\ domain' = (set.primary # NoDomain)
          /\ fallback' = set.fallback
    /\ op' = [NoOp EXCEPT !.name = "set_domain", !.base = Len(tracker.events)]
    /\ UNCHANGED <<backend, retrieve_events_from_previous_conversation_sessions,
                   event_broker, store, rows, database, construction, writers,
                   scope, published, tracker, evClock, saved>>

NextDomain ==
    \/ NextOver({"u1"}, {"greet"}, 1)
    \/ \E new_domain \in Domains \cup {NoDomain} : SetDomain(new_domain)

SpecDomain == InitDomain /\ [][NextDomain]_vars

\* ------------------------------------------------------------- the database
\* A SQLTrackerStore, bare or inside the decorator, on a database that goes
\* away and comes back, and whose configured schema may be dropped and
\* created, between the caller's operations.
MaxDatabaseEvents == 2

InitDatabase ==
    /\ backend \in {"sql", "failsafe"}
    /\ domain = TRUE
    /\ domain_object = "domain1"
    /\ retrieve_events_from_previous_conversation_sessions = FALSE
    /\ event_broker \in BOOLEAN
    /\ store = <<>>
    /\ rows = <<>>
    /\ database \in [reachable : BOOLEAN, schema : Schemas]
    /\ construction = Constructed
    /\ writers = NoWriters
    /\ scope = NoScope
    /\ fallback = NoFallback
    /\ published = <<>>
    /\ tracker = None
    /\ evClock = 0
    /\ saved = {}
    /\ op = NoOp

\* The database server goes down or comes back.
Connectivity ==
    /\ ~Exited
    /\ database' = [database EXCEPT !.reachable = ~@]
    /\ UNCHANGED <<backend, domain, domain_object,
                   retrieve_events_from_previous_conversation_sessions,
                   event_broker, store, rows, construction, writers, scope,
                   fallback, published, tracker, evClock, saved, op>>

\* The configured schema is dropped or created.
SchemaChange ==
    /\ ~Exited
    /\ database.schema # "unset"
    /\ database' = [database EXCEPT
                       !.schema = IF @ = "missing" THEN "present" ELSE "missing"]
    /\ UNCHANGED <<backend, domain, domain_object,
                   retrieve_events_from_previous_conversation_sessions,
                   event_broker, store, rows, construction, writers, scope,
                   fallback, published, tracker, evClock, saved, op>>

NextDatabase ==
    \/ NextOver({"u1"}, {"greet"}, MaxDatabaseEvents)
    \/ Keys
    \/ Connectivity
    \/ SchemaChange

SpecDatabase == InitDatabase /\ [][NextDatabase]_vars

\* ---------------------------------------------------------- the constructor
\* SQLTrackerStore.__init__ step by step, on a database that goes away and
\* comes back while the constructor runs. The attempts are counted up to
\* MaxAttempts and no further; the loop itself has no bound.
MaxAttempts == 3

InitConstructor ==
    /\ backend = "sql"
    /\ domain = TRUE
    /\ domain_object = "domain1"
    /\ retrieve_events_from_previous_conversation_sessions = FALSE
    /\ event_broker = FALSE
    /\ store = <<>>
    /\ rows = <<>>
    /\ database \in [reachable : BOOLEAN, schema : {"unset"}]
    /\ construction \in [pc : {"loop"}, dialect : {"sqlite", "postgresql"},
                          login_db : BOOLEAN, table : BOOLEAN, attempts : {1},
                          error : {Null}]
    /\ writers = NoWriters
    /\ scope = NoScope
    /\ fallback = NoFallback
    /\ published = <<>>
    /\ tracker = None
    /\ evClock = 0
    /\ saved = {}
    /\ op = NoOp

ConstructorStep(next) ==
    /\ construction' = next
    /\ UNCHANGED <<backend, domain, domain_object,
                   retrieve_events_from_previous_conversation_sessions,
                   event_broker, store, rows, database, writers, scope, fallback,
                   published, tracker, evClock, saved, op>>

\* `if login_db: self._create_database_and_update_engine(db, engine_url)`:
\* a warning and nothing else unless the dialect is postgresql; otherwise
\* engine.connect(), whose OperationalError goes to the outer handler
\* (logger.warning), while the errors of CREATE DATABASE are caught inside.
CreateDatabaseAndUpdateEngine ==
    /\ construction.pc = "loop"
    /\ construction.login_db
    /\ ConstructorStep(
          IF construction.dialect = "postgresql" /\ ~database.reachable
          THEN [construction EXCEPT !.pc = "sleep", !.error = "OperationalError"]
          ELSE [construction EXCEPT !.pc = "create_all"])

\* Base.metadata.create_all(engine), then sessionmaker and break. An
\* OperationalError (or ProgrammingError) of create_all is caught by the inner
\* handler, logged, and the constructor goes on; an IntegrityError (services
\* creating the tables at the same time) goes to the outer handler.
CreateAll ==
    /\ \/ construction.pc = "loop" /\ ~construction.login_db
       \/ construction.pc = "create_all"
    /\ \E next \in
          IF database.reachable
          THEN {[construction EXCEPT !.pc = "done", !.table = TRUE],
                [construction EXCEPT !.pc = "sleep", !.error = "IntegrityError"]}
          ELSE {[construction EXCEPT !.pc = "done", !.error = "OperationalError"]} :
          ConstructorStep(next)

\* sleep(5), and the loop again.
Sleep ==
    /\ construction.pc = "sleep"
    /\ ConstructorStep([construction EXCEPT
          !.pc = "loop", !.error = Null,
          !.attempts = IF @ < MaxAttempts THEN @ + 1 ELSE @])

NextConstructor ==
    \/ CreateDatabaseAndUpdateEngine
    \/ CreateAll
    \/ Sleep
    \/ Connectivity

SpecConstructor == InitConstructor /\ [][NextConstructor]_vars

\* ---------------------------------------------------------- session scopes
\* One SQLTrackerStore operation after the other, each as the steps of its
\* `with self.session_scope() as session:` block; the database goes away and
\* comes back, its schema is dropped and created, and the stored payloads
\* are valid JSON or not (decodable). pending is the exception in flight,
\* origin where it was raised. The calls are counted up to MaxCalls.
MaxCalls == 2

InitScope ==
    /\ backend = "sql"
    /\ domain = TRUE
    /\ domain_object = "domain1"
    /\ retrieve_events_from_previous_conversation_sessions = FALSE
    /\ event_broker = FALSE
    /\ store = <<>>
    /\ rows = <<>>
    /\ database \in [reachable : BOOLEAN, schema : Schemas]
    /\ construction = Constructed
    /\ writers = NoWriters
    /\ scope \in {[NoScope EXCEPT !.decodable = d] : d \in BOOLEAN}
    /\ fallback = NoFallback
    /\ published = <<>>
    /\ tracker = None
    /\ evClock = 0
    /\ saved = {}
    /\ op = NoOp

ScopeStep(next) ==
    /\ scope' = next
    /\ UNCHANGED <<backend, domain, domain_object,
                   retrieve_events_from_previous_conversation_sessions,
                   event_broker, store, rows, database, construction, writers,
                   fallback, published, tracker, evClock, saved, op>>

\* The exceptions the body of the block may raise: the driver's error when
\* the database is away at its query; in _retrieve, json.loads on a payload
\* that is not valid JSON (json.JSONDecodeError, a ValueError).
BodyOutcomes(call, db, decodable) ==
    IF ~db.reachable THEN {"OperationalError"}
    ELSE IF call \in {"retrieve", "retrieve_full_tracker"} /\ ~decodable
         THEN {"ValueError"}
         ELSE {Null}

\* `except ValueError as e: print_error_and_exit(...)`: the handler sees the
\* exceptions of ensure_schema_exists and those thrown into the generator
\* from the body of the block alike.
except_ValueError(pending, origin) ==
    IF pending = "ValueError" THEN "SystemExit" ELSE pending

\* A scope that closes the session on a normal return only.
finally_close_on_return(open, pending) ==
    IF pending = Null THEN open - 1 ELSE open

\* `finally: session.close()`
finally_close(open, pending) == open - 1

\* keys(), retrieve(), retrieve_full_tracker() or save() enters its block:
\* session = self.sessionmaker()
EnterScope(call) ==
    /\ scope.pc = "idle"
    /\ scope.calls < MaxCalls
    /\ ScopeStep([scope EXCEPT !.pc = "try", !.call = call, !.open = @ + 1,
                               !.pending = Null, !.origin = Null,
                               !.calls = @ + 1])

\* ensure_schema_exists(session)
EnsureSchemaExists ==
    /\ scope.pc = "try"
    /\ LET checked == ensure_schema_exists(database)
       IN ScopeStep(IF checked = "ok"
                    THEN [scope EXCEPT !.pc = "body"]
                    ELSE [scope EXCEPT !.pc = "except", !.pending = checked,
                                       !.origin = "ensure_schema_exists"])

\* `yield session`: the body of the with block runs.
ScopeBody ==
    /\ scope.pc = "body"
    /\ \E e \in BodyOutcomes(scope.call, database, scope.decodable) :
          ScopeStep(IF e = Null
                    THEN [scope EXCEPT !.pc = "finally"]
                    ELSE [scope EXCEPT !.pc = "except", !.pending = e,
                                       !.origin = "body"])

\* The except clause.
Except ==
    /\ scope.pc = "except"
    /\ ScopeStep([scope EXCEPT
          !.pc = "finally",
          !.pending = except_ValueError(scope.pending, scope.origin)])

\* The finally clause.
Finally ==
    /\ scope.pc = "finally"
    /\ ScopeStep([scope EXCEPT
          !.pc = "left",
          !.open = finally_close(scope.open, scope.pending)])

\* The scope is left: the operation returns or raises to its caller, who may
\* call again, or the process ends.
LeaveScope ==
    /\ scope.pc = "left"
    /\ ScopeStep([scope EXCEPT
          !.pc = IF scope.pending = "SystemExit" THEN "exited" ELSE "idle"])

NextScope ==
    \/ \E call \in {"keys", "retrieve", "retrieve_full_tracker", "save"} :
          EnterScope(call)
    \/ EnsureSchemaExists
    \/ ScopeBody
    \/ Except
    \/ Finally
    \/ LeaveScope
    \/ Connectivity
    \/ SchemaChange

SpecScope == InitScope /\ [][NextScope]_vars

\* ------------------------------------------------------- concurrent writers
\* Two workers serve the conversation "u1" on one SQLTrackerStore (with a
\* domain, no broker, flag unset). Each holds its own tracker and appends to
\* it the conversation's events as they reach it: event number n is the same
\* event for both. A save() is two steps, so that two of them interleave:
\* the count of _additional_events, then the inserts and the commit.
MaxWriterEvents == 3
Writers == {1, 2}

InitConcurrent ==
    /\ backend = "sql"
    /\ domain = TRUE
    /\ domain_object = "domain1"
    /\ retrieve_events_from_previous_conversation_sessions = FALSE
    /\ event_broker = FALSE
    /\ store = <<>>
    /\ rows = <<>>
    /\ database = Available
    /\ construction = Constructed
    /\ writers = [w \in Writers |->
                    [pc |-> "idle", count |-> 0, counted_at |-> 0, saves |-> 0,
                     tracker |-> init_tracker("u1")]]
    /\ scope = NoScope
    /\ fallback = NoFallback
    /\ published = <<>>
    /\ tracker = None
    /\ evClock = 0
    /\ saved = {}
    /\ op = NoOp

WriterStep(w, next, rws) ==
    /\ writers' = [writers EXCEPT ![w] = next]
    /\ rows' = rws
    /\ UNCHANGED <<backend, domain, domain_object,
                   retrieve_events_from_previous_conversation_sessions,
                   event_broker, store, database, construction, scope, fallback,
                   published, tracker, evClock, saved, op>>

\* tracker.update(event) in worker w: the next event of the conversation.
WriterUpdate(w) ==
    /\ writers[w].pc = "idle"
    /\ Len(writers[w].tracker.events) < MaxWriterEvents
    /\ WriterStep(w,
          [writers[w] EXCEPT
             !.tracker.events =
                 Append(@, NewEvent("greet", Len(writers[w].tracker.events) + 1))],
          rows)

\* save(tracker) in worker w, up to the count of _additional_events.
WriterCount(w) ==
    /\ writers[w].pc = "idle"
    /\ WriterStep(w,
          [writers[w] EXCEPT
             !.pc = "counted",
             !.count = event_query_count(rows, writers[w].tracker.sender_id,
                          retrieve_events_from_previous_conversation_sessions),
             !.counted_at = Len(rows)],
          rows)

\* The rest of that save: one row per event beyond the count, and the commit.
WriterCommit(w) ==
    /\ writers[w].pc = "counted"
    /\ LET new == islice(writers[w].tracker.events, writers[w].count)
       IN /\ Len(rows) + Len(new) <= MaxRows
          /\ \E stamps \in Stamps(Len(new), LastStamp(rows)) :
                WriterStep(w,
                    [writers[w] EXCEPT !.pc = "idle", !.saves = 1],
                    rows \o [i \in 1..Len(new) |->
                               SQLEvent(writers[w].tracker.sender_id, new[i],
                                        stamps[i])])

NextConcurrent ==
    \E w \in Writers : WriterUpdate(w) \/ WriterCount(w) \/ WriterCommit(w)

SpecConcurrent == InitConcurrent /\ [][NextConcurrent]_vars

\* ------------------------------------------------------ the session scenario
\* The log [A, SessionStarted, B, C] of the session-windowing scenario: one
\* writer appends these four events to one tracker of "u1", in this order, and
\* saves and retrieves at any point, on a SQLTrackerStore with a domain.
SessionLog == <<"greet", "session_started", "hello", "greet">>

InitSession ==
    /\ InitWith({"sql"}, {TRUE}, {FALSE})
    /\ ~event_broker

StartSession ==
    /\ tracker.is_none
    /\ evClock = 0
    /\ InitTracker("u1")

UpdateInOrder ==
    /\ ~tracker.is_none
    /\ evClock < Len(SessionLog)
    /\ tracker' = [tracker EXCEPT
                     !.events = Append(@, NewEvent(SessionLog[evClock + 1], evClock + 1))]
    /\ evClock' = evClock + 1
    /\ UNCHANGED <<config, store, rows, fallback, published, saved, op>>

NextSession ==
    \/ StartSession
    \/ UpdateInOrder
    \/ Save
    \/ Retrieve("u1")
    \/ RetrieveFullTracker("u1")

SpecSession == InitSession /\ [][NextSession]_vars

\* ------------------------------------------------------------------ claims
Range(q) == {q[i] : i \in 1..Len(q)}

\* The events of a conversation's rows, decoded, in insertion (row id) order.
RECURSIVE LogOf(_, _)
LogOf(rws, sender_id) ==
    IF rws = <<>> THEN <<>>
    ELSE LET rest == LogOf(SubSeq(rws, 1, Len(rws) - 1), sender_id)
             last == rws[Len(rws)]
         IN IF last.sender_id = sender_id
            THEN Append(rest, event_from_dict(json_loads(last.data)))
            ELSE rest

\* The active session of a log: from its last session-started event on, or
\* the whole log when it has none.
ActiveSession(log) ==
    LET S == {i \in 1..Len(log) : log[i].kind = "SessionStarted"}
    IN IF S = {} THEN log ELSE SubSeq(log, SetMax(S), Len(log))

\* What the last store operation returned or saved: the caller may have
\* appended events to the tracker since.
Returned == SubSeq(tracker.events, 1, op.base)

\* The step is tracker.update(event), not a call of the store.
UpdateStep ==
    /\ op' = op
    /\ ~tracker.is_none
    /\ evClock' = evClock + 1
    /\ Len(tracker'.events) = Len(tracker.events) + 1
    /\ tracker'.events[Len(tracker'.events)].action_name # ACTION_LISTEN_NAME
    /\ UNCHANGED <<store, rows, fallback, published>>

SaveStep == op'.name = "save" /\ ~UpdateStep

GetOrCreateStep == op'.name = "get_or_create_tracker" /\ ~UpdateStep

\* C1 (as claimed): a tracker with events, saved to a store that has a domain
\* and held no log for its id, is replayed by the retrieve_full_tracker() that
\* follows: same events, same order.
C1_RoundTrip ==
    [][(/\ op.name = "save" /\ ~op.held /\ op.base > 0 /\ domain
        /\ op'.name = "retrieve_full_tracker"
        /\ op'.sender_id = op.sender_id)
       => /\ ~tracker'.is_none
          /\ tracker'.events = Returned]_vars

\* C2 (as claimed): a second save() of a tracker that got no new event leaves
\* the persisted rows (and the in-memory entry) as the first save left them.
C2_SaveTwice ==
    [][(/\ op.name = "save"
        /\ Len(tracker.events) = op.base
        /\ SaveStep)
       => rows' = rows /\ store' = store]_vars

\* The rows a save appended for the events `new` of conversation sender_id.
InsertedFor(before, after, sender_id, new) ==
    /\ Len(after) = Len(before) + Len(new)
    /\ SubSeq(after, 1, Len(before)) = before
    /\ \A i \in 1..Len(new) :
          LET row == after[Len(before) + i]
          IN /\ row.sender_id = sender_id
             /\ row.action_name = new[i].action_name
             /\ row.intent_name = new[i].intent
             /\ event_from_dict(json_loads(row.data)) = new[i]

\* C3 (as claimed): on SQLTrackerStore a save() of a tracker that came from
\* retrieve() or get_or_create_tracker() and got k more events inserts exactly
\* those k events as rows, in order, with their action and intent names, and
\* changes no other row; and once get_or_create_tracker on an empty store and
\* the save of one appended action have stored [listen, greet], retrieve()
\* replays [listen, greet].
C3_IncrementalWrite ==
    [][/\ (/\ backend = "sql"
           /\ op.name \in {"retrieve", "get_or_create_tracker"}
           /\ ~tracker.is_none
           /\ SaveStep)
          => InsertedFor(rows, rows', tracker.sender_id,
                         islice(tracker.events, op.base))
       /\ (/\ backend = "sql" /\ domain
           /\ op.name = "save" /\ op.inserted = 1
           /\ Len(rows) = 2
           /\ rows[1].action_name = ACTION_LISTEN_NAME
           /\ rows[2].action_name = "greet"
           /\ rows[1].sender_id = op.sender_id
           /\ rows[2].sender_id = op.sender_id
           /\ op'.name = "retrieve" /\ op'.sender_id = op.sender_id)
          => /\ ~tracker'.is_none
             /\ tracker'.events = LogOf(rows, op.sender_id)]_vars

\* C4 (as claimed): on SQLTrackerStore with the deprecated flag unset a
\* retrieve() that returns a tracker replays the active session of the stored
\* log, session-started event included and everything before it excluded (the
\* whole log when it has no session start); retrieve_full_tracker() replays the
\* whole log.
C4_SessionWindow ==
    /\ (/\ backend = "sql" /\ op.name = "retrieve" /\ ~tracker.is_none
        /\ ~retrieve_events_from_previous_conversation_sessions)
       => Returned = ActiveSession(LogOf(rows, op.sender_id))
    /\ (/\ backend = "sql" /\ op.name = "retrieve_full_tracker" /\ ~tracker.is_none)
       => Returned = LogOf(rows, op.sender_id)

\* The events table holds exactly the scenario's log [A, SessionStarted, B, C].
HoldsSessionLog ==
    LogOf(rows, "u1") = [i \in 1..Len(SessionLog) |-> NewEvent(SessionLog[i], i)]

\* The scenario's rows carry strictly increasing timestamps.
DistinctStamps ==
    \A i \in 1..(Len(rows) - 1) : rows[i].timestamp < rows[i + 1].timestamp

\* The row timestamp under which an event of the scenario is stored.
StampOf(e) == rows[e.timestamp].timestamp

SortedByStamp(q) ==
    \A i \in 1..Len(q), j \in 1..Len(q) : i < j => StampOf(q[i]) <= StampOf(q[j])

C6_Absence ==
    op.name = "retrieve"
    => /\ op.sender_id \notin saved => tracker.is_none
       /\ (backend = "sql" /\ (~domain \/ op.sender_id \notin SQL_keys(rows)))
             => tracker.is_none
       /\ op.raised = <<>>

\* C6 witness: the store holds a log of another conversation, and retrieve()
\* of an id that was never saved has returned None.
C6_Witness ==
    /\ op.name = "retrieve"
    /\ op.sender_id \notin saved
    /\ \E other \in saved : HoldsLog(other)
    /\ domain
    /\ tracker.is_none

\* The rows save() appends for tracker t, whatever their timestamps.
SavedTo(st, rws, st2, rws2, t) ==
    IF backend = "memory"
    THEN /\ st2 = [id \in DOMAIN st \cup {t.sender_id} |->
                     IF id = t.sender_id THEN serialise_tracker(t) ELSE st[id]]
         /\ rws2 = rws
    ELSE /\ st2 = st
         /\ InsertedFor(rws, rws2, t.sender_id,
               additional_events(rws,
                   retrieve_events_from_previous_conversation_sessions, t))

\* What get_or_create_tracker does: it never returns None; a tracker that
\* retrieve() returns is returned and nothing is written or published;
\* otherwise the new tracker holds exactly action_listen (no event when
\* append_action_listen is false), save() ran once on it, and the store then
\* holds a log for the id in the sense of holds_log.
GetOrCreateContract(holds_log) ==
    GetOrCreateStep
    => LET found == {r.tracker : r \in retrieve(op'.sender_id)} \ {None}
       IN /\ ~tracker'.is_none
          /\ IF found # {}
             THEN /\ tracker' \in found
                  /\ op'.saves = 0
                  /\ UNCHANGED <<store, rows, published, saved>>
             ELSE /\ tracker'.events =
                        (IF op'.append
                         THEN <<ActionExecuted(ACTION_LISTEN_NAME, evClock + 1)>>
                         ELSE <<>>)
                  /\ op'.saves = 1
                  /\ SavedTo(store, rows, store', rows', tracker')
                  /\ holds_log

C8_NoRepublish ==
    domain => \A i \in 1..Len(published), j \in 1..Len(published) :
                 published[i] = published[j] => i = j

\* The events are in the order they were created and appended in.
InAppendOrder(events) ==
    \A i \in 1..Len(events), j \in 1..Len(events) :
       i < j => events[i].timestamp < events[j].timestamp

\* No payload of a conversation follows a payload of a later event of it.
PublishedInOrder(pub) ==
    \A i \in 1..Len(pub), j \in 1..Len(pub) :
       (i < j /\ pub[i].sender_id = pub[j].sender_id)
       => pub[i].data.timestamp <= pub[j].data.timestamp

\* C9 (as claimed): a save() publishes events of the tracker in the order of
\* its event list, each as the event's serialised fields plus the tracker's
\* sender_id; and when the tracker's events are in append order and the
\* payloads published so far are too, they still are after the save.
C9_PublishOrder ==
    [][(domain /\ event_broker /\ SaveStep)
       => /\ \E offset \in 0..Len(tracker.events) :
                published' = published \o stream_events(tracker, offset)
          /\ (InAppendOrder(tracker.events) /\ PublishedInOrder(published))
                => PublishedInOrder(published')]_vars

\* C10: a FailSafeTrackerStore.save() whose primary save raises hands that
\* error to on_tracker_store_error, once, then saves to the fallback store
\* (created on the spot when there was none), which afterwards holds the
\* tracker's whole event list, the primary's rows staying as they were; when
\* the primary save succeeds the callback is not invoked and the fallback is
\* left alone.
C10_ResilientSave ==
    [][(backend = "failsafe" /\ SaveStep)
       => IF op'.raised # <<>>
          THEN /\ Len(op'.raised) = 1
               /\ op'.callbacks = op'.raised
               /\ fallback'.exists
               /\ fallback'.lazy = (IF fallback.exists THEN fallback.lazy ELSE TRUE)
               /\ InStore(fallback'.store, tracker.sender_id)
               /\ InMemory_retrieve(fallback'.store, tracker.sender_id).events
                     = tracker.events
               /\ rows' = rows
          ELSE /\ op'.callbacks = <<>>
               /\ fallback' = fallback]_vars

\* C10 witness: the primary save of a tracker of two events raised, and the
\* fallback store created for it holds both events.
C10_Witness ==
    /\ backend = "failsafe"
    /\ op.name = "save"
    /\ op.raised # <<>>
    /\ Len(op.callbacks) = 1
    /\ fallback.exists /\ fallback.lazy
    /\ op.base = 2
    /\ Len(tracker.events) = 2
    /\ InMemory_retrieve(fallback.store, tracker.sender_id).events = tracker.events

\* C11: FailSafeTrackerStore.retrieve and keys never let an exception of the
\* primary store reach the caller: the error goes to on_tracker_store_error,
\* once, and the result is None (retrieve) or empty (keys); and
\* get_or_create_tracker through the decorator returns a tracker, also when
\* the primary store failed in its retrieve and in its save.
C11_ResilientReads ==
    backend = "failsafe"
    => /\ op.name \in {"retrieve", "keys", "get_or_create_tracker"}
             => op.propagated = <<>>
       /\ (op.name \in {"retrieve", "keys"} /\ op.raised # <<>>)
             => /\ Len(op.raised) = 1
                /\ op.callbacks = op.raised
                /\ op.name = "retrieve" => tracker.is_none
                /\ op.name = "keys" => op.keys = {}
       /\ (op.name \in {"retrieve", "keys"} /\ op.raised = <<>>)
             => op.callbacks = <<>>
       /\ op.name = "get_or_create_tracker" => ~tracker.is_none

\* C11 witness: the primary store holds rows of u1 and failed in the retrieve
\* and in the save of a get_or_create_tracker, which returned a new tracker.
C11_Witness ==
    /\ backend = "failsafe"
    /\ op.name = "get_or_create_tracker"
    /\ Len(op.raised) = 2
    /\ op.callbacks = op.raised
    /\ "u1" \in SQL_keys(rows)
    /\ ~tracker.is_none
    /\ op.created

\* C12: the decorator's domain is the primary store's domain and, whenever a
\* fallback store exists (supplied or created on first use), the fallback
\* store's domain: the same object, after construction and after every
\* assignment to the decorator's domain.
C12_DomainMirror ==
    backend = "failsafe"
    => /\ domain_getter = domain_object
       /\ fallback.exists => fallback.domain = domain_getter

\* C12 witness: the fallback store was created on first use and the domain
\* was assigned afterwards; both stores hold the new domain.
C12_Witness ==
    /\ backend = "failsafe"
    /\ fallback.exists /\ fallback.lazy
    /\ op.name = "set_domain"
    /\ domain_object = "domain2"
    /\ fallback.domain = "domain2"
    /\ InStore(fallback.store, "u1")

\* q is a prefix of r.
IsPrefix(q, r) == Len(q) <= Len(r) /\ SubSeq(r, 1, Len(q)) = q

\* The persisted event log of a conversation id: the decoded entry of the
\* in-memory dict, the decoded rows of the events table in row-id order.
PersistedLog(st, rws, sender_id) ==
    IF backend = "memory"
    THEN (IF InStore(st, sender_id)
          THEN deserialise_tracker(sender_id, st[sender_id]).events
          ELSE <<>>)
    ELSE LogOf(rws, sender_id)

\* C13 (as claimed): on every backend and for every conversation id the
\* persisted log before a save() is a prefix of the persisted log after it.
C13_AppendOnly ==
    [][SaveStep
       => \A sender_id \in Ids :
             IsPrefix(PersistedLog(store, rows, sender_id),
                      PersistedLog(store', rows', sender_id))]_vars

\* C14 (as claimed): once SQLTrackerStore.save(tracker) has returned, every
\* event of the tracker is in the persisted log of its conversation id,
\* whatever was persisted for the id before, and the retrieve_full_tracker()
\* that follows returns all of them.
C14_ReadAfterWrite ==
    [][/\ (backend = "sql" /\ SaveStep)
          => Range(tracker.events) \subseteq Range(LogOf(rows', tracker.sender_id))
       /\ (/\ backend = "sql" /\ domain
           /\ op.name = "save" /\ op.base > 0
           /\ op'.name = "retrieve_full_tracker"
           /\ op'.sender_id = op.sender_id)
          => /\ ~tracker'.is_none
             /\ Range(Returned) \subseteq Range(tracker'.events)]_vars

\* The SQLTrackerStore operations that open a session.
SessionOps == {"keys", "retrieve", "retrieve_full_tracker", "save"}

\* The step is a call of one of them.
SessionCall == op' # op /\ op'.name \in SessionOps

\* C15: when the configured schema is missing from the (answering) database,
\* every keys, retrieve, retrieve_full_tracker and save ends the process with
\* no row read or written, nothing published, nothing returned to the caller,
\* and, inside a FailSafeTrackerStore, no error callback and no fallback save;
\* nothing runs after the exit.
C15_MissingSchemaFatal ==
    [][/\ ~Exited
       /\ (/\ database.schema = "missing" /\ database.reachable
           /\ SessionCall)
          => /\ op'.propagated = <<"SystemExit">>
             /\ op'.callbacks = <<>>
             /\ ~op'.fb_saved
             /\ op'.inserted = 0 /\ op'.streamed = 0
             /\ op'.keys = {}
             /\ UNCHANGED <<rows, store, fallback, published, tracker>>]_vars

\* C15 witness: a decorator whose primary store holds rows; the schema was
\* dropped, and the save of a tracker with a new event ended the process:
\* no fallback store was created.
C15_Witness ==
    /\ Exited
    /\ backend = "failsafe"
    /\ op.name = "save"
    /\ database.schema = "missing"
    /\ rows # <<>>
    /\ Len(tracker.events) > Len(rows)
    /\ ~fallback.exists

\* C16 (as claimed): when the database cannot be reached during a keys,
\* retrieve, retrieve_full_tracker or save of a SQLTrackerStore, the error
\* the caller observes is ConnectionException.
C16_TypedConnectionFailure ==
    [][(/\ backend = "sql"
        /\ ~database.reachable
        /\ SessionCall)
       => op'.propagated = <<"ConnectionException">>]_vars

\* C20: a save() of the primary SQLTrackerStore that raises, at whatever
\* point before its commit completes, leaves the events table exactly as it
\* was before the call; one that returns has added all of its rows, behind
\* the rows that were there.
C20_AtomicSave ==
    [][(backend = "failsafe" /\ SaveStep)
       => IF op'.raised # <<>>
          THEN rows' = rows
          ELSE /\ IsPrefix(rows, rows')
               /\ Len(rows') = Len(rows) + op'.inserted
               /\ op'.inserted = Len(additional_events(rows,
                      retrieve_events_from_previous_conversation_sessions,
                      tracker))]_vars

\* C20 witness: the save of a tracker with two events, none of them stored,
\* raised in the primary store: the table is still empty.
C20_Witness ==
    /\ backend = "failsafe"
    /\ op.name = "save"
    /\ op.raised # <<>>
    /\ Len(tracker.events) = 2
    /\ rows = <<>>

\* C17 (as claimed): a constructor that has returned has created the events
\* table.
C17_StartupBarrier ==
    construction.pc = "done" => construction.table

\* C18 (as claimed): every OperationalError and IntegrityError raised in the
\* constructor's loop is followed by the wait and a new attempt.
C18_RetryAfterEachError ==
    [][(construction' # construction /\ construction'.error # Null)
       => construction'.pc = "sleep"]_vars

\* The events stored for a conversation id in rows that precede (by row id)
\* its last session-started row.
BeforeLastSessionStart(rws, sender_id) ==
    LET S == {i \in 1..Len(rws) : /\ rws[i].sender_id = sender_id
                                  /\ rws[i].type_name = SessionStartedTypeName}
    IN IF S = {} THEN {}
       ELSE {event_from_dict(json_loads(rws[i].data)) :
               i \in {j \in 1..(SetMax(S) - 1) : rws[j].sender_id = sender_id}}

\* retrieve_full_tracker() replays the stored log in the order it was appended.
ReplaysInAppendOrder ==
    (backend = "sql" /\ op.name = "retrieve_full_tracker" /\ ~tracker.is_none)
    => Returned = LogOf(rows, op.sender_id)

\* retrieve() puts no event stored before the last session start into the
\* active session (an event stored again after it is in the session).
KeepsEarlierEventsOut ==
    (/\ backend = "sql"
     /\ op.name = "retrieve" /\ ~tracker.is_none
     /\ ~retrieve_events_from_previous_conversation_sessions)
    => Range(Returned) \cap BeforeLastSessionStart(rows, op.sender_id)
          \subseteq Range(ActiveSession(LogOf(rows, op.sender_id)))

\* C19 (as claimed): the rows of one conversation id carry strictly
\* increasing timestamps in insertion order; retrieve_full_tracker replays
\* the log in append order; and retrieve places no event stored before the
\* last session-started row in the active session.
C19_LogOrder ==
    /\ backend = "sql"
       => \A i, j \in 1..Len(rows) :
             (i < j /\ rows[i].sender_id = rows[j].sender_id)
             => rows[i].timestamp < rows[j].timestamp
    /\ ReplaysInAppendOrder
    /\ KeepsEarlierEventsOut

\* C21 (as claimed): in a save() of a SQLTrackerStore the count that picks
\* the rows to insert is the number of events a retrieve() at that moment
\* returns, and with an event broker the payloads published by the save are
\* those of the events it inserted as rows, in the same order; whatever the
\* domain and the deprecated flag are.
C21_SameDelta ==
    [][(backend = "sql" /\ SaveStep)
       => /\ \A old \in SQL_retrieve(rows, domain,
                        retrieve_events_from_previous_conversation_sessions,
                        tracker.sender_id) :
                number_of_existing_events(old) =
                   event_query_count(rows, tracker.sender_id,
                       retrieve_events_from_previous_conversation_sessions)
          /\ event_broker
                => /\ Len(published') = Len(published) + op'.inserted
                   /\ \A i \in 1..op'.inserted :
                         /\ published'[Len(published) + i].sender_id
                               = rows'[Len(rows) + i].sender_id
                         /\ json_dumps(published'[Len(published) + i].data)
                               = rows'[Len(rows) + i].data]_vars

\* No event is stored twice for the conversation id.
NoDuplicates(rws, sender_id) ==
    LET log == LogOf(rws, sender_id)
    IN \A i, j \in 1..Len(log) : log[i] = log[j] => i = j

\* The step is the commit of worker w's save.
CommitStep(w) ==
    writers[w].pc = "counted" /\ writers'[w].pc = "idle"

C23_ScopedSessions ==
    /\ scope.pc \in {"idle", "left", "exited"} => scope.open = 0
    /\ scope.pc \in {"try", "body", "except", "finally"} => scope.open = 1

\* C23 witness: a scope was left on the exit path of a missing schema and
\* its session is closed.
C23_Witness ==
    /\ scope.pc = "exited"
    /\ scope.origin = "ensure_schema_exists"
    /\ scope.open = 0
    /\ scope.calls = 2

\* C24 (as claimed): a SQLTrackerStore operation ends the process only for
\* the missing schema that ensure_schema_exists found; an error raised in
\* the body of the scope reaches the caller as an exception.
C24_ExitOnlyForMissingSchema ==
    /\ scope.pending = "SystemExit" => scope.origin = "ensure_schema_exists"
    /\ (scope.pc = "left" /\ scope.origin = "body") => scope.pending # "SystemExit"

\* C25 (as claimed): when the primary store does not fail, the decorator's
\* retrieve_full_tracker(id) returns what the primary SQLTrackerStore's
\* retrieve_full_tracker(id) returns: the whole log, across all sessions.
C25_FullRetrievalThroughDecorator ==
    (/\ backend = "failsafe"
     /\ op.name = "retrieve_full_tracker"
     /\ op.raised = <<>>)
    => \E full \in SQL_retrieve_full_tracker(rows, domain, op.sender_id) :
          /\ full.is_none = tracker.is_none
          /\ ~full.is_none => full.events = Returned

\* C26 (as claimed): one save() through the decorator, the fallback store
\* being none yet or one it created itself with the primary's event broker,
\* publishes no event twice, also when the primary's save fails after
\* stream_events and the save is repeated on the fallback store.
C26_NoDoublePublishOnFailOver ==
    [][(/\ backend = "failsafe"
        /\ fallback.exists => fallback.lazy
        /\ SaveStep)
       => LET out == SubSeq(published', Len(published) + 1, Len(published'))
          IN \A i, j \in 1..Len(out) : out[i] = out[j] => i = j]_vars

\* The events the fallback store holds for a conversation id and the events
\* table does not.
HeldByFallbackOnly(fb, rws, sender_id) ==
    IF fb.exists /\ InStore(fb.store, sender_id)
    THEN Range(deserialise_tracker(sender_id, fb.store[sender_id]).events)
            \ Range(LogOf(rws, sender_id))
    ELSE {}

\* The step is the store call of that name.
CallStep(name) == op'.name = name /\ ~UpdateStep

\* C27: through the decorator, retrieve(id) returns what the primary store's
\* retrieve returns (None when it raised) and keys() what the primary's keys
\* returns (nothing when it raised); get_or_create_tracker(id) returns the
\* primary's tracker or a newly created one; none of them hands out an event
\* that only the fallback store holds.
C27_ReadsIgnoreFallback ==
    [][backend = "failsafe"
       => LET primary == SQL_retrieve(rows, domain,
                             retrieve_events_from_previous_conversation_sessions,
                             op'.sender_id)
          IN /\ CallStep("retrieve")
                   => /\ tracker' \in (IF op'.raised = <<>> THEN primary ELSE {None})
                      /\ Range(tracker'.events)
                            \cap HeldByFallbackOnly(fallback, rows, op'.sender_id) = {}
             /\ CallStep("keys")
                   => op'.keys = (IF op'.raised = <<>> THEN SQL_keys(rows) ELSE {})
             /\ CallStep("get_or_create_tracker")
                   => /\ tracker' \in (IF op'.created
                                       THEN {create_tracker(op'.sender_id, op'.append)}
                                       ELSE primary)
                      /\ Range(tracker'.events)
                            \cap HeldByFallbackOnly(fallback, rows, op'.sender_id) = {}]_vars

\* C27 witness: the fallback store holds events of "u1" that the events
\* table does not hold; the primary works again, and get_or_create_tracker
\* has created a new tracker with none of them.
C27_Witness ==
    /\ backend = "failsafe"
    /\ op.name = "get_or_create_tracker"
    /\ op.created /\ op.append /\ op.raised = <<>>
    /\ HeldByFallbackOnly(fallback, rows, "u1") # {}
    /\ ~tracker.is_none
    /\ Range(tracker.events) \cap HeldByFallbackOnly(fallback, rows, "u1") = {}

====
